---- MODULE Spec2Model ----
(***************************************************************************)
(* A model of src/src/pipeline.py: the retrying GET (safe_get), the paged  *)
(* collector (worldbank_fetch_all_pages), the two country adapters and the *)
(* indicator normaliser, the master resolver (fetch_countries_master), the *)
(* latest-value reduction (latest_by_country), the merge loop of main and  *)
(* the quality checks (run_quality_checks).                                *)
(*                                                                         *)
(* Each component has its own variables and its own specification; a       *)
(* specification leaves the variables of the other components at their     *)
(* initial (idle) values.                                                  *)
(***************************************************************************)
EXTENDS Integers, Sequences, FiniteSets, TLC

VARIABLES
    \* safe_get
    sg_retries,      \* the `retries` argument
    sg_i,            \* the loop variable i of `for i in range(retries)`
    sg_pc,           \* "try" | "returned" | "raised" ("idle": not part of the run)
    sg_last_err,     \* last_err
    sg_sleeps,       \* the durations passed to time.sleep, in call order
    sg_log,          \* the outcome of every SESSION.get issued, in order
    sg_ret,          \* the response returned to the caller
    \* worldbank_fetch_all_pages
    pg_page,         \* page
    pg_rows_all,     \* rows_all
    pg_pc,           \* "request" | "done" | "raised"
    pg_requested,    \* the page number of every safe_get call, in call order
    pg_log,          \* what every safe_get call produced, in call order
    \* the adapters: fetch_worldbank_countries, fetch_restcountries,
    \* fetch_indicator_bulk
    ad_call,         \* the function called: "wb" | "rc" | "ind"
    ad_rows,         \* the provider's country rows (wb, rc)
    ad_irows,        \* the provider's indicator rows (ind)
    ad_pc,           \* "call" | "returned" | "raised"
    ad_out,          \* the table returned
    \* latest_by_country
    rd_in,           \* the rows of df (iso3, year, value)
    rd_pc,           \* "call" | "returned"
    rd_out,          \* the table returned
    \* main, with fetch_countries_master
    mn_pc,           \* "master_primary" | "master_secondary" | "indicators"
                     \* | "merge" | "done" | "aborted"
    mn_wb,           \* the call of fetch_worldbank_countries: [called, raised, table]
    mn_rc,           \* the call of fetch_restcountries: [called, raised, table]
    mn_countries,    \* countries
    mn_k,            \* the position in INDICATORS of the next indicator
    mn_failed,       \* the indicators whose fetch raised
    mn_frames,       \* indicator_latest_frames
    mn_final,        \* final_df
    mn_qa,           \* what run_quality_checks returned: [checks, passed]
    \* run_quality_checks
    qa_df,           \* final_df
    qa_pc,           \* "call" | "returned"
    qa_result        \* [checks, passed]

fetchVars == <<sg_retries, sg_i, sg_pc, sg_last_err, sg_sleeps, sg_log, sg_ret>>
pageVars == <<pg_page, pg_rows_all, pg_pc, pg_requested, pg_log>>

adapterVars == <<ad_call, ad_rows, ad_irows, ad_pc, ad_out>>
reduceVars == <<rd_in, rd_pc, rd_out>>

mainVars ==
    <<mn_pc, mn_wb, mn_rc, mn_countries, mn_k, mn_failed, mn_frames, mn_final, mn_qa>>
qaVars == <<qa_df, qa_pc, qa_result>>

vars == <<fetchVars, pageVars, adapterVars, reduceVars, mainVars, qaVars>>

otherThanFetch == <<pageVars, adapterVars, reduceVars, mainVars, qaVars>>
otherThanPages == <<fetchVars, adapterVars, reduceVars, mainVars, qaVars>>
otherThanAdapters == <<fetchVars, pageVars, reduceVars, mainVars, qaVars>>
otherThanReduce == <<fetchVars, pageVars, adapterVars, mainVars, qaVars>>
otherThanMain == <<fetchVars, pageVars, adapterVars, reduceVars, qaVars>>
otherThanQuality == <<fetchVars, pageVars, adapterVars, reduceVars, mainVars>>

----------------------------------------------------------------------------
(* Bounds of the model *)

\* largest `retries` argument tried; the default, which every caller uses,
\* is 6
MaxRetries == 6

\* the model stops requesting after this page; it is also the largest page
\* count a page's metadata reports
MaxPage == 3

\* the most rows a provider returns to an adapter
MaxSourceRows == 3

\* the most observations given to latest_by_country
MaxObservations == 3

\* the most rows a country provider returns in a run of main
MaxMasterRows == 2

\* the most rows the indicator provider returns for one indicator in a run of
\* main
MaxIndicatorRows == 1

\* the most rows of a table given to run_quality_checks
MaxQualityRows == 3

----------------------------------------------------------------------------
(* safe_get, lines 34-51 *)

\* the default of the `retries` parameter
DefaultRetries == 6

\* the cap of the backoff, min(60, 2 ** i)
BackoffCap == 60

\* the statuses safe_get retries without calling raise_for_status
RetryStatuses == {429, 500, 502, 503, 504}

\* the statuses the modelled server answers with
Statuses == {200, 404, 429, 500, 502, 503, 504}

HttpResponse(s) == [kind |-> "http", status |-> s]
TransportFailure == [kind |-> "transport", status |-> 0]
NoResponse == [kind |-> "none", status |-> 0]

Min(a, b) == IF a <= b THEN a ELSE b

BackoffShifted(i) == Min(BackoffCap, 2 ^ (i + 1))

\* time.sleep(min(60, 2 ** i))
Backoff(i) == Min(BackoffCap, 2 ^ i)

LoopContinuesInclusive(i, retries) == i <= retries

\* for i in range(retries): the body runs while i < retries
LoopContinues(i, retries) == i < retries

\* requests.Response.raise_for_status raises for 400 <= status < 600
RaisesForStatus(s) == 400 <= s /\ s < 600

IdleFetch ==
    /\ sg_retries = DefaultRetries
    /\ sg_i = 0
    /\ sg_pc = "idle"
    /\ sg_last_err = NoResponse
    /\ sg_sleeps = <<>>
    /\ sg_log = <<>>
    /\ sg_ret = NoResponse

StartFetch ==
    /\ sg_retries \in 1..MaxRetries
    /\ sg_i = 0
    /\ sg_pc = "try"
    /\ sg_last_err = NoResponse
    /\ sg_sleeps = <<>>
    /\ sg_log = <<>>
    /\ sg_ret = NoResponse

\* line 40-42: a status of the retry list: sleep, continue
SafeGetRetryStatus ==
    /\ sg_pc = "try" /\ LoopContinues(sg_i, sg_retries)
    /\ \E s \in Statuses :
          /\ s \in RetryStatuses
          /\ sg_log' = Append(sg_log, HttpResponse(s))
    /\ sg_sleeps' = Append(sg_sleeps, Backoff(sg_i))
    /\ sg_i' = sg_i + 1
    /\ UNCHANGED <<sg_retries, sg_pc, sg_last_err, sg_ret, otherThanFetch>>

\* line 44-45: raise_for_status passes, the response is returned
SafeGetReturn ==
    /\ sg_pc = "try" /\ LoopContinues(sg_i, sg_retries)
    /\ \E s \in Statuses :
          /\ s \notin RetryStatuses
          /\ ~RaisesForStatus(s)
          /\ sg_log' = Append(sg_log, HttpResponse(s))
          /\ sg_ret' = HttpResponse(s)
    /\ sg_pc' = "returned"
    /\ UNCHANGED <<sg_retries, sg_i, sg_last_err, sg_sleeps, otherThanFetch>>

\* line 44, 47-49: raise_for_status raises HTTPError inside the try block; the
\* except clause catches it, records it, sleeps, and the loop goes on
SafeGetHTTPError ==
    /\ sg_pc = "try" /\ LoopContinues(sg_i, sg_retries)
    /\ \E s \in Statuses :
          /\ s \notin RetryStatuses
          /\ RaisesForStatus(s)
          /\ sg_log' = Append(sg_log, HttpResponse(s))
          /\ sg_last_err' = HttpResponse(s)
    /\ sg_sleeps' = Append(sg_sleeps, Backoff(sg_i))
    /\ sg_i' = sg_i + 1
    /\ UNCHANGED <<sg_retries, sg_pc, sg_ret, otherThanFetch>>

\* line 38, 47-49: SESSION.get raises (timeout, connection error)
SafeGetTransportError ==
    /\ sg_pc = "try" /\ LoopContinues(sg_i, sg_retries)
    /\ sg_log' = Append(sg_log, TransportFailure)
    /\ sg_last_err' = TransportFailure
    /\ sg_sleeps' = Append(sg_sleeps, Backoff(sg_i))
    /\ sg_i' = sg_i + 1
    /\ UNCHANGED <<sg_retries, sg_pc, sg_ret, otherThanFetch>>

\* line 51: the loop is over, RuntimeError
SafeGetExhausted ==
    /\ sg_pc = "try" /\ ~LoopContinues(sg_i, sg_retries)
    /\ sg_pc' = "raised"
    /\ UNCHANGED <<sg_retries, sg_i, sg_last_err, sg_sleeps, sg_log, sg_ret, otherThanFetch>>

NextFetch ==
    \/ SafeGetRetryStatus
    \/ SafeGetReturn
    \/ SafeGetHTTPError
    \/ SafeGetTransportError
    \/ SafeGetExhausted

----------------------------------------------------------------------------
(* worldbank_fetch_all_pages, lines 54-79 *)

\* the rows a page carries: none, one, a repeated row, two different rows
PageRowChoices == {<<>>, <<"a">>, <<"a", "a">>, <<"b", "a">>}

\* safe_get raised (retries exhausted): the exception leaves the collector
FetchRaised == [kind |-> "raise", has_pages |-> FALSE, pages |-> 0, rows |-> <<>>]

\* r.json() is not a list of at least two parts
InvalidEnvelope == [kind |-> "invalid", has_pages |-> FALSE, pages |-> 0, rows |-> <<>>]

\* [meta, rows]: has_pages tells whether meta has the key "pages"
Envelopes ==
    { [kind |-> "envelope", has_pages |-> h, pages |-> n, rows |-> rs] :
        h \in BOOLEAN, n \in 0..MaxPage, rs \in PageRowChoices }

\* [meta, rows] where meta["pages"] is no number: int() raises ValueError
BadCountEnvelopes ==
    { [kind |-> "badcount", has_pages |-> TRUE, pages |-> 0, rows |-> rs] :
        rs \in PageRowChoices }

\* what a page request produces
Payloads ==
    {FetchRaised, InvalidEnvelope}
        \cup {e \in Envelopes : ~e.has_pages => e.pages = 0}
        \cup BadCountEnvelopes

\* line 63
IsEnvelope(payload) == payload.kind = "envelope"

\* line 70: pages = int(meta.get("pages", 0) or 0)
MetaPages(payload) == IF payload.has_pages THEN payload.pages ELSE 0

\* line 71: if pages and page >= pages
LastPage(page, pages) == pages # 0 /\ page >= pages

\* line 74: if not pages and not rows
EmptyNoCount(pages, rows) == pages = 0 /\ rows = <<>>

ExtendDeduplicated(rows_all, rows) ==
    rows_all \o SelectSeq(rows, LAMBDA r : \A i \in 1..Len(rows_all) : rows_all[i] # r)

\* line 68: rows_all.extend(rows)
Extend(rows_all, rows) == rows_all \o rows

IdlePages ==
    /\ pg_page = 1
    /\ pg_rows_all = <<>>
    /\ pg_pc = "idle"
    /\ pg_requested = <<>>
    /\ pg_log = <<>>

StartPages ==
    /\ pg_page = 1
    /\ pg_rows_all = <<>>
    /\ pg_pc = "request"
    /\ pg_requested = <<>>
    /\ pg_log = <<>>

\* line 60: safe_get raises; nothing is returned
PagesFetchRaises ==
    /\ pg_pc = "request" /\ pg_page <= MaxPage
    /\ pg_requested' = Append(pg_requested, pg_page)
    /\ pg_log' = Append(pg_log, FetchRaised)
    /\ pg_pc' = "raised"
    /\ UNCHANGED <<pg_page, pg_rows_all, otherThanPages>>

\* lines 63-64: not the two-part envelope: break
PagesInvalidEnvelope ==
    /\ pg_pc = "request" /\ pg_page <= MaxPage
    /\ pg_requested' = Append(pg_requested, pg_page)
    /\ pg_log' = Append(pg_log, InvalidEnvelope)
    /\ pg_pc' = "done"
    /\ UNCHANGED <<pg_page, pg_rows_all, otherThanPages>>

\* lines 66-70: the envelope is well formed but int(meta["pages"]) raises
PagesBadPageCount ==
    /\ pg_pc = "request" /\ pg_page <= MaxPage
    /\ \E payload \in Payloads :
          /\ payload.kind = "badcount"
          /\ pg_log' = Append(pg_log, payload)
          /\ pg_rows_all' = Extend(pg_rows_all, payload.rows)
    /\ pg_requested' = Append(pg_requested, pg_page)
    /\ pg_pc' = "raised"
    /\ UNCHANGED <<pg_page, otherThanPages>>

\* lines 66-72: the rows are appended; the page count is reached: break
PagesLastPage ==
    /\ pg_pc = "request" /\ pg_page <= MaxPage
    /\ \E payload \in Payloads :
          /\ IsEnvelope(payload)
          /\ LastPage(pg_page, MetaPages(payload))
          /\ pg_log' = Append(pg_log, payload)
          /\ pg_rows_all' = Extend(pg_rows_all, payload.rows)
    /\ pg_requested' = Append(pg_requested, pg_page)
    /\ pg_pc' = "done"
    /\ UNCHANGED <<pg_page, otherThanPages>>

\* lines 66-75: no page count and no rows: break
PagesEmptyNoCount ==
    /\ pg_pc = "request" /\ pg_page <= MaxPage
    /\ \E payload \in Payloads :
          /\ IsEnvelope(payload)
          /\ ~LastPage(pg_page, MetaPages(payload))
          /\ EmptyNoCount(MetaPages(payload), payload.rows)
          /\ pg_log' = Append(pg_log, payload)
          /\ pg_rows_all' = Extend(pg_rows_all, payload.rows)
    /\ pg_requested' = Append(pg_requested, pg_page)
    /\ pg_pc' = "done"
    /\ UNCHANGED <<pg_page, otherThanPages>>

\* lines 66-77: the rows are appended and the next page is asked for
PagesNextPage ==
    /\ pg_pc = "request" /\ pg_page <= MaxPage
    /\ \E payload \in Payloads :
          /\ IsEnvelope(payload)
          /\ ~LastPage(pg_page, MetaPages(payload))
          /\ ~EmptyNoCount(MetaPages(payload), payload.rows)
          /\ pg_log' = Append(pg_log, payload)
          /\ pg_rows_all' = Extend(pg_rows_all, payload.rows)
    /\ pg_requested' = Append(pg_requested, pg_page)
    /\ pg_page' = pg_page + 1
    /\ UNCHANGED <<pg_pc, otherThanPages>>

NextPages ==
    \/ PagesFetchRaises
    \/ PagesInvalidEnvelope
    \/ PagesBadPageCount
    \/ PagesLastPage
    \/ PagesEmptyNoCount
    \/ PagesNextPage

----------------------------------------------------------------------------
(* Values and tables *)

\* A string is a sequence of one-character strings. A nullable number is a
\* set: {} is null (None, NaN, pd.NA) and {n} is the number n. A table (a
\* DataFrame) is [cols, rows]: cols the column names in order, rows the rows in
\* order, each row a function from the column names to cells. The cell of a
\* column whose content the pipeline never reads is Opaque.

Null == {}
Some(n) == {n}
Val(cell) == CHOOSE v \in cell : TRUE
Opaque == {"~"}

Range(seq) == {seq[i] : i \in 1..Len(seq)}

Table(cols, rows) == [cols |-> cols, rows |-> rows]

\* DataFrame.empty
IsEmpty(table) == table.rows = <<>> \/ table.cols = <<>>

\* the characters of the modelled strings, in code point order
Chars == <<" ", "A", "F", "N", "R", "S", "U", "Z", "a", "e", "n", "o">>
CharRank(c) == CHOOSE i \in 1..Len(Chars) : Chars[i] = c

RECURSIVE StrLess(_, _)
\* s < t, as Python compares str
StrLess(s, t) ==
    IF t = <<>> THEN FALSE
    ELSE IF s = <<>> THEN TRUE
    ELSE IF s[1] # t[1] THEN CharRank(s[1]) < CharRank(t[1])
    ELSE StrLess(Tail(s), Tail(t))

RECURSIVE LStrip(_)
LStrip(s) == IF s # <<>> /\ s[1] = " " THEN LStrip(Tail(s)) ELSE s

RECURSIVE RStrip(_)
RStrip(s) ==
    IF s # <<>> /\ s[Len(s)] = " " THEN RStrip(SubSeq(s, 1, Len(s) - 1)) ELSE s

\* Series.str.strip()
Strip(s) == RStrip(LStrip(s))

\* The code field of a provider row: the key is missing (after json_normalize
\* the cell is NaN when another row has the key), the value is JSON null
\* (None), or it is a string.
AbsentCode == [t |-> "absent", s |-> <<>>]
NullCode == [t |-> "null", s |-> <<>>]
StrCode(s) == [t |-> "str", s |-> s]

USA == <<"U", "S", "A">>
FRA == <<"F", "R", "A">>
ZZZ == <<"Z", "Z", "Z">>
PaddedUSA == <<" ", "U", "S", "A">>
US == <<"U", "S">>
NanStr == <<"n", "a", "n">>
NoneStr == <<"N", "o", "n", "e">>

\* Series.astype(str) on an object column (pandas 1.x and 2.x): str(x) of
\* every cell, so NaN becomes "nan" and None becomes "None"
AsTypeStr(code) ==
    CASE code.t = "absent" -> NanStr
      [] code.t = "null" -> NoneStr
      [] OTHER -> code.s

\* out[out["iso3"].notna() & (out["iso3"].str.len() == 3)]: after astype(str)
\* every cell is a string, so notna() is true of every row
ValidIso3(rows) == SelectSeq(rows, LAMBDA r : Len(r["iso3"]) = 3)

\* drop_duplicates(subset=["iso3"], keep="first")
DropDuplicatesKeepFirst(rows) ==
    LET keep == {i \in 1..Len(rows) :
                    \A j \in 1..(i - 1) : rows[j]["iso3"] # rows[i]["iso3"]}
        F[i \in 0..Len(rows)] ==
            IF i = 0 THEN <<>>
            ELSE IF i \in keep THEN Append(F[i - 1], rows[i]) ELSE F[i - 1]
    IN F[Len(rows)]

\* a row of a country table: the code, the name, the population (restcountries
\* only); every other column is opaque
CountryRow(cols, iso3, name, population) ==
    [c \in Range(cols) |->
        CASE c = "iso3" -> iso3
          [] c \in {"country", "country_name_wb"} -> Some(name)
          [] c = "population" -> population
          [] OTHER -> Opaque]

\* DataFrame.rename(columns=...): `renamed` maps old names to new ones
Rename(table, renamed) ==
    LET new(c) == IF c \in DOMAIN renamed THEN renamed[c] ELSE c
        old(n) == CHOOSE c \in Range(table.cols) : new(c) = n
        cols == [i \in 1..Len(table.cols) |-> new(table.cols[i])]
    IN Table(cols,
             [i \in 1..Len(table.rows) |->
                 [n \in Range(cols) |-> table.rows[i][old(n)]]])

----------------------------------------------------------------------------
(* fetch_worldbank_countries, lines 82-118 *)

\* line 87: the columns of the empty result
WBEmptyColumns == <<"iso3", "country_name_wb", "region", "income_level", "capital_wb">>

\* line 111: keep_cols
WBColumns ==
    <<"iso3", "country_name_wb", "region", "income_level", "capital_wb", "lat", "lon">>

\* `rows` is what worldbank_fetch_all_pages returned; a row is
\* [code, name, aggregate, population], aggregate telling whether its
\* region.value is "Aggregates"
FetchWorldbankCountries(rows) ==
    IF rows = <<>> THEN Table(WBEmptyColumns, <<>>)
    ELSE
        LET df == SelectSeq(rows, LAMBDA r : ~r.aggregate)
            \* lines 103-109: the code column exists when some row has the key
            hasColumn == \E i \in 1..Len(rows) : rows[i].code.t # "absent"
            out == [i \in 1..Len(df) |->
                      CountryRow(WBColumns,
                                 Strip(IF hasColumn THEN AsTypeStr(df[i].code)
                                       ELSE NoneStr),
                                 df[i].name, Null)]
        IN Table(WBColumns, DropDuplicatesKeepFirst(ValidIso3(out)))

----------------------------------------------------------------------------
(* fetch_restcountries, lines 121-152 *)

RCColumns ==
    <<"iso3", "country", "region", "subregion", "capital", "lat", "lon", "population">>

\* `rows` is the JSON list the endpoint returned
FetchRestcountries(rows) ==
    LET out == [i \in 1..Len(rows) |->
                  CountryRow(RCColumns, Strip(AsTypeStr(rows[i].code)),
                             rows[i].name, rows[i].population)]
    IN Table(RCColumns, DropDuplicatesKeepFirst(ValidIso3(out)))

----------------------------------------------------------------------------
(* fetch_indicator_bulk, lines 168-185 *)

IndicatorColumns == <<"iso3", "year", "value">>

\* a raw field that is a number (or a numeric string), or anything else
Numeric(n) == [t |-> "num", n |-> n]
NotNumeric == [t |-> "other", n |-> 0]

\* pd.to_numeric(..., errors="coerce")
ToNumeric(raw) == IF raw.t = "num" THEN Some(raw.n) ELSE Null

\* lines 176-178: selecting ["iso3", "year", "value"] raises KeyError when no
\* row has the key countryiso3code
FetchIndicatorBulkRaises(rows) ==
    rows # <<>> /\ \A i \in 1..Len(rows) : rows[i].code.t = "absent"

\* `rows` is what worldbank_fetch_all_pages returned; a row is
\* [code, date, value]
FetchIndicatorBulk(rows) ==
    LET out == [i \in 1..Len(rows) |->
                  [iso3 |-> Strip(AsTypeStr(rows[i].code)),
                   year |-> ToNumeric(rows[i].date),
                   value |-> ToNumeric(rows[i].value)]]
    IN IF rows = <<>> THEN Table(IndicatorColumns, <<>>)
       ELSE Table(IndicatorColumns, ValidIso3(out))

----------------------------------------------------------------------------
(* latest_by_country, lines 188-196 *)

SortsBeforeAscending(a, b) ==
    \/ StrLess(a.iso3, b.iso3)
    \/ /\ a.iso3 = b.iso3
       /\ a.year # Null
       /\ (b.year = Null \/ Val(a.year) < Val(b.year))

\* the order of sort_values(["iso3", "year"], ascending=[True, False]): by
\* code ascending, then by year descending, a null year last
SortsBefore(a, b) ==
    \/ StrLess(a.iso3, b.iso3)
    \/ /\ a.iso3 = b.iso3
       /\ a.year # Null
       /\ (b.year = Null \/ Val(a.year) > Val(b.year))

\* x put into the sorted sequence before the first element it sorts before
Insert(sorted, x) ==
    LET later == {i \in 1..Len(sorted) : SortsBefore(x, sorted[i])}
        at == IF later = {} THEN Len(sorted) + 1
              ELSE CHOOSE i \in later : \A j \in later : i <= j
    IN SubSeq(sorted, 1, at - 1) \o <<x>> \o SubSeq(sorted, at, Len(sorted))

RECURSIVE SortValues(_)
\* sort_values on several columns is a stable sort
SortValues(rows) ==
    IF rows = <<>> THEN <<>>
    ELSE Insert(SortValues(SubSeq(rows, 1, Len(rows) - 1)), rows[Len(rows)])

\* GroupBy.first(): the first non-null cell of the column within the group
FirstNotNull(group, column) ==
    LET notnull == {i \in 1..Len(group) : group[i][column] # Null}
    IN IF notnull = {} THEN Null
       ELSE group[CHOOSE i \in notnull : \A j \in notnull : i <= j][column]

LatestColumns(value_name) == <<"iso3", value_name, value_name \o "_year">>

\* `df` is a table with the columns iso3, year, value
LatestByCountry(df, value_name) ==
    LET d == SelectSeq(df.rows, LAMBDA r : r.value # Null)
        sorted == SortValues(d)
        \* groupby("iso3"): one group per code, the groups in code order
        heads == {i \in 1..Len(sorted) :
                     i = 1 \/ sorted[i - 1].iso3 # sorted[i].iso3}
        group(i) == SelectSeq(sorted, LAMBDA r : r.iso3 = sorted[i].iso3)
        F[i \in 0..Len(sorted)] ==
            IF i = 0 THEN <<>>
            ELSE IF i \in heads
                 THEN Append(F[i - 1],
                        [c \in Range(LatestColumns(value_name)) |->
                            CASE c = "iso3" -> sorted[i].iso3
                              [] c = value_name -> FirstNotNull(group(i), "value")
                              [] OTHER -> FirstNotNull(group(i), "year")])
                 ELSE F[i - 1]
    IN IF d = <<>> THEN Table(LatestColumns(value_name), <<>>)
       ELSE Table(LatestColumns(value_name), F[Len(sorted)])

----------------------------------------------------------------------------
(* The adapters called on provider rows *)

SeqsUpTo(S, n) == UNION {[1..k -> S] : k \in 0..n}

RawCodes ==
    {AbsentCode, NullCode, StrCode(USA), StrCode(FRA), StrCode(PaddedUSA), StrCode(US)}

RawCountryRows(codes, names, populations) ==
    [code : codes, name : names, aggregate : BOOLEAN, population : populations]

RawIndicatorRows(codes, dates, values) ==
    [code : codes, date : dates, value : values]

NoTable == Table(<<>>, <<>>)

IdleAdapters ==
    /\ ad_call = "none"
    /\ ad_rows = <<>>
    /\ ad_irows = <<>>
    /\ ad_pc = "idle"
    /\ ad_out = NoTable

StartAdapters ==
    /\ ad_pc = "call"
    /\ ad_out = NoTable
    /\ \/ /\ ad_call \in {"wb", "rc"}
          /\ ad_rows \in SeqsUpTo(RawCountryRows(RawCodes, {"n1", "n2"}, {Null}),
                                  MaxSourceRows)
          /\ ad_irows = <<>>
       \/ /\ ad_call = "ind"
          /\ ad_rows = <<>>
          /\ ad_irows \in SeqsUpTo(RawIndicatorRows(RawCodes,
                                      {Numeric(1), NotNumeric}, {Numeric(7), NotNumeric}),
                                   MaxSourceRows)

AdapterWorldbank ==
    /\ ad_pc = "call" /\ ad_call = "wb"
    /\ ad_out' = FetchWorldbankCountries(ad_rows)
    /\ ad_pc' = "returned"
    /\ UNCHANGED <<ad_call, ad_rows, ad_irows, otherThanAdapters>>

AdapterRestcountries ==
    /\ ad_pc = "call" /\ ad_call = "rc"
    /\ ad_out' = FetchRestcountries(ad_rows)
    /\ ad_pc' = "returned"
    /\ UNCHANGED <<ad_call, ad_rows, ad_irows, otherThanAdapters>>

AdapterIndicator ==
    /\ ad_pc = "call" /\ ad_call = "ind"
    /\ ~FetchIndicatorBulkRaises(ad_irows)
    /\ ad_out' = FetchIndicatorBulk(ad_irows)
    /\ ad_pc' = "returned"
    /\ UNCHANGED <<ad_call, ad_rows, ad_irows, otherThanAdapters>>

AdapterIndicatorRaises ==
    /\ ad_pc = "call" /\ ad_call = "ind"
    /\ FetchIndicatorBulkRaises(ad_irows)
    /\ ad_pc' = "raised"
    /\ UNCHANGED <<ad_call, ad_rows, ad_irows, ad_out, otherThanAdapters>>

NextAdapters ==
    \/ AdapterWorldbank
    \/ AdapterRestcountries
    \/ AdapterIndicator
    \/ AdapterIndicatorRaises

----------------------------------------------------------------------------
(* latest_by_country called on a table of observations *)

Observations ==
    [iso3 : {USA, FRA}, year : {Null, Some(1), Some(2)},
     value : {Null, Some(10), Some(20)}]

IdleReduce ==
    /\ rd_in = <<>>
    /\ rd_pc = "idle"
    /\ rd_out = NoTable

StartReduce ==
    /\ rd_in \in SeqsUpTo(Observations, MaxObservations)
    /\ rd_pc = "call"
    /\ rd_out = NoTable

Reduce ==
    /\ rd_pc = "call"
    /\ rd_out' = LatestByCountry(Table(IndicatorColumns, rd_in), "population")
    /\ rd_pc' = "returned"
    /\ UNCHANGED <<rd_in, otherThanReduce>>

NextReduce == Reduce

----------------------------------------------------------------------------
(* run_quality_checks, lines 199-216 *)

\* line 210: the columns checked for negative values
QualityColumns == <<"population", "gdp_usd", "gdp_per_capita_usd", "life_expectancy">>

DuplicatedKeepNone(rows) ==
    Cardinality({i \in 1..Len(rows) :
                    \E j \in 1..Len(rows) : j # i /\ rows[j]["iso3"] = rows[i]["iso3"]})

\* final_df["iso3"].duplicated().sum(): duplicated() marks every row whose
\* code already occurred in an earlier row
DuplicatedSum(rows) ==
    Cardinality({i \in 1..Len(rows) :
                    \E j \in 1..(i - 1) : rows[j]["iso3"] = rows[i]["iso3"]})

\* (final_df[col].dropna() < 0).sum()
NegativeSum(rows, col) ==
    Cardinality({i \in 1..Len(rows) :
                    rows[i][col] # Null /\ Val(rows[i][col]) < 0})

\* The checks in order, and the verdict report["passed"].all(). The second
\* value returned, the table of the ten greatest missing rates, is not
\* modelled.
RunQualityChecks(final_df) ==
    LET dup_iso3 == IF "iso3" \in Range(final_df.cols)
                    THEN DuplicatedSum(final_df.rows) ELSE 0
        present == SelectSeq(QualityColumns, LAMBDA c : c \in Range(final_df.cols))
        checks ==
            << [check |-> "unique_iso3", passed |-> dup_iso3 = 0, details |-> dup_iso3],
               [check |-> "missingness_report_generated", passed |-> TRUE,
                details |-> "see qa_missingness_report.csv"] >>
            \o [i \in 1..Len(present) |->
                  [check |-> present[i] \o "_non_negative",
                   passed |-> NegativeSum(final_df.rows, present[i]) = 0,
                   details |-> NegativeSum(final_df.rows, present[i])]]
    IN [checks |-> checks,
        passed |-> \A i \in 1..Len(checks) : checks[i].passed]

----------------------------------------------------------------------------
(* fetch_countries_master, lines 155-165, and main, lines 219-265 *)

\* line 18: INDICATORS, in the order of the dict
IndicatorNames == <<"population", "gdp_usd", "gdp_per_capita_usd", "life_expectancy">>

PrimaryUsableAlways(wb) == TRUE

\* line 158: if not wb.empty
PrimaryUsable(wb) == ~IsEmpty(wb)

\* line 159
RenameMaster(wb) ==
    Rename(wb, [country_name_wb |-> "country", capital_wb |-> "capital"])

MergesFrameWithIso3(frame) == "iso3" \in Range(frame.cols)

\* line 249: if "iso3" in frame.columns and frame.shape[0] > 0
MergesFrame(frame) == "iso3" \in Range(frame.cols) /\ Len(frame.rows) > 0

\* the row of a merge for a left row, and a right row or none of them
MergedRow(left, right, l, matched, r) ==
    LET overlap == (Range(left.cols) \cap Range(right.cols)) \ {"iso3"}
        lname(c) == IF c \in overlap THEN c \o "_x" ELSE c
        rname(c) == IF c \in overlap THEN c \o "_y" ELSE c
        names == {lname(c) : c \in Range(left.cols)}
                    \cup {rname(c) : c \in Range(right.cols) \ {"iso3"}}
    IN [n \in names |->
          IF \E c \in Range(left.cols) : lname(c) = n
          THEN l[CHOOSE c \in Range(left.cols) : lname(c) = n]
          ELSE IF matched
               THEN r[CHOOSE c \in Range(right.cols) \ {"iso3"} : rname(c) = n]
               ELSE Null]

MergedColumns(left, right) ==
    LET overlap == (Range(left.cols) \cap Range(right.cols)) \ {"iso3"}
        others == SelectSeq(right.cols, LAMBDA c : c # "iso3")
    IN [i \in 1..Len(left.cols) |->
           IF left.cols[i] \in overlap THEN left.cols[i] \o "_x" ELSE left.cols[i]]
       \o [i \in 1..Len(others) |->
           IF others[i] \in overlap THEN others[i] \o "_y" ELSE others[i]]

MergeInner(left, right) ==
    LET matches(l) == SelectSeq(right.rows, LAMBDA r : r["iso3"] = l["iso3"])
        rowsOf(l) == [j \in 1..Len(matches(l)) |->
                         MergedRow(left, right, l, TRUE, matches(l)[j])]
        F[i \in 0..Len(left.rows)] ==
            IF i = 0 THEN <<>> ELSE F[i - 1] \o rowsOf(left.rows[i])
    IN Table(MergedColumns(left, right), F[Len(left.rows)])

\* left.merge(right, on="iso3", how="left"): the left rows in their order,
\* each once per right row of its code (in the right order), or once with
\* nulls when there is none
Merge(left, right) ==
    LET matches(l) == SelectSeq(right.rows, LAMBDA r : r["iso3"] = l["iso3"])
        rowsOf(l) ==
            IF matches(l) = <<>> THEN << MergedRow(left, right, l, FALSE, l) >>
            ELSE [j \in 1..Len(matches(l)) |->
                     MergedRow(left, right, l, TRUE, matches(l)[j])]
        F[i \in 0..Len(left.rows)] ==
            IF i = 0 THEN <<>> ELSE F[i - 1] \o rowsOf(left.rows[i])
    IN Table(MergedColumns(left, right), F[Len(left.rows)])

\* lines 246-250: the merge loop
MergeFrames(countries, frames) ==
    LET F[i \in 0..Len(frames)] ==
            IF i = 0 THEN countries
            ELSE IF MergesFrame(frames[i]) THEN Merge(F[i - 1], frames[i])
            ELSE F[i - 1]
    IN F[Len(frames)]

\* lines 252-253: final_df["as_of_utc"] = as_of
StampAsOf(table) ==
    Table(Append(table.cols, "as_of_utc"),
          [i \in 1..Len(table.rows) |->
              [c \in Range(table.cols) \cup {"as_of_utc"} |->
                  IF c = "as_of_utc" THEN Opaque ELSE table.rows[i][c]]])

NotCalled == [called |-> FALSE, raised |-> FALSE, table |-> NoTable]
Raised == [called |-> TRUE, raised |-> TRUE, table |-> NoTable]
Returned(table) == [called |-> TRUE, raised |-> FALSE, table |-> table]

NoQuality == [checks |-> <<>>, passed |-> FALSE]

\* what the providers answer in a run of main
WorldbankFeeds ==
    SeqsUpTo(RawCountryRows({StrCode(USA), StrCode(FRA), AbsentCode}, {"wb"}, {Null}),
             MaxMasterRows)
RestcountriesFeeds ==
    SeqsUpTo([code : {StrCode(USA), StrCode(FRA)}, name : {"rc"},
              aggregate : {FALSE}, population : {Some(5)}],
             MaxMasterRows)
IndicatorFeeds ==
    SeqsUpTo(RawIndicatorRows({StrCode(USA), StrCode(ZZZ), AbsentCode},
                              {Numeric(1)}, {Numeric(7), NotNumeric}),
             MaxIndicatorRows)

IdleMain ==
    /\ mn_pc = "idle"
    /\ mn_wb = NotCalled
    /\ mn_rc = NotCalled
    /\ mn_countries = NoTable
    /\ mn_k = 1
    /\ mn_failed = {}
    /\ mn_frames = <<>>
    /\ mn_final = NoTable
    /\ mn_qa = NoQuality

StartMain ==
    /\ mn_pc = "master_primary"
    /\ mn_wb = NotCalled
    /\ mn_rc = NotCalled
    /\ mn_countries = NoTable
    /\ mn_k = 1
    /\ mn_failed = {}
    /\ mn_frames = <<>>
    /\ mn_final = NoTable
    /\ mn_qa = NoQuality

\* lines 157-160: the primary adapter returns a table that is not empty
MasterPrimaryReturns ==
    /\ mn_pc = "master_primary"
    /\ \E rows \in WorldbankFeeds :
          LET wb == FetchWorldbankCountries(rows) IN
          /\ PrimaryUsable(wb)
          /\ mn_wb' = Returned(wb)
          /\ mn_countries' = RenameMaster(wb)
    /\ mn_pc' = "indicators"
    /\ UNCHANGED <<mn_rc, mn_k, mn_failed, mn_frames, mn_final, mn_qa, otherThanMain>>

\* lines 157-158: the primary adapter returns an empty table
MasterPrimaryEmpty ==
    /\ mn_pc = "master_primary"
    /\ \E rows \in WorldbankFeeds :
          LET wb == FetchWorldbankCountries(rows) IN
          /\ ~PrimaryUsable(wb)
          /\ mn_wb' = Returned(wb)
    /\ mn_pc' = "master_secondary"
    /\ UNCHANGED <<mn_rc, mn_countries, mn_k, mn_failed, mn_frames, mn_final, mn_qa,
                   otherThanMain>>

\* lines 157, 161-162: the primary adapter raises; the exception is dropped
MasterPrimaryRaises ==
    /\ mn_pc = "master_primary"
    /\ mn_wb' = Raised
    /\ mn_pc' = "master_secondary"
    /\ UNCHANGED <<mn_rc, mn_countries, mn_k, mn_failed, mn_frames, mn_final, mn_qa,
                   otherThanMain>>

\* lines 164-165, 226-228: the secondary adapter returns; main raises when
\* the table is empty
MasterSecondaryReturns ==
    /\ mn_pc = "master_secondary"
    /\ \E rows \in RestcountriesFeeds :
          LET rc == FetchRestcountries(rows) IN
          /\ mn_rc' = Returned(rc)
          /\ mn_countries' = rc
          /\ mn_pc' = IF IsEmpty(rc) THEN "aborted" ELSE "indicators"
    /\ UNCHANGED <<mn_wb, mn_k, mn_failed, mn_frames, mn_final, mn_qa, otherThanMain>>

\* line 164: the secondary adapter raises, and so do fetch_countries_master
\* and main
MasterSecondaryRaises ==
    /\ mn_pc = "master_secondary"
    /\ mn_rc' = Raised
    /\ mn_pc' = "aborted"
    /\ UNCHANGED <<mn_wb, mn_countries, mn_k, mn_failed, mn_frames, mn_final, mn_qa,
                   otherThanMain>>

AfterIndicator == IF mn_k = Len(IndicatorNames) THEN "merge" ELSE "indicators"

\* lines 237-241: the indicator is fetched and reduced
IndicatorFetched ==
    /\ mn_pc = "indicators"
    /\ \E rows \in IndicatorFeeds :
          /\ ~FetchIndicatorBulkRaises(rows)
          /\ mn_frames' = Append(mn_frames,
                 LatestByCountry(FetchIndicatorBulk(rows), IndicatorNames[mn_k]))
    /\ mn_k' = mn_k + 1
    /\ mn_pc' = AfterIndicator
    /\ UNCHANGED <<mn_wb, mn_rc, mn_countries, mn_failed, mn_final, mn_qa, otherThanMain>>

\* lines 239, 242-243: worldbank_fetch_all_pages raises (safe_get exhausted)
\* and the empty frame stands in
IndicatorFetchRaises ==
    /\ mn_pc = "indicators"
    /\ mn_frames' = Append(mn_frames, Table(LatestColumns(IndicatorNames[mn_k]), <<>>))
    /\ mn_failed' = mn_failed \cup {IndicatorNames[mn_k]}
    /\ mn_k' = mn_k + 1
    /\ mn_pc' = AfterIndicator
    /\ UNCHANGED <<mn_wb, mn_rc, mn_countries, mn_final, mn_qa, otherThanMain>>

\* lines 239, 242-243: fetch_indicator_bulk raises on the rows it got
IndicatorNormalizeRaises ==
    /\ mn_pc = "indicators"
    /\ \E rows \in IndicatorFeeds : FetchIndicatorBulkRaises(rows)
    /\ mn_frames' = Append(mn_frames, Table(LatestColumns(IndicatorNames[mn_k]), <<>>))
    /\ mn_failed' = mn_failed \cup {IndicatorNames[mn_k]}
    /\ mn_k' = mn_k + 1
    /\ mn_pc' = AfterIndicator
    /\ UNCHANGED <<mn_wb, mn_rc, mn_countries, mn_final, mn_qa, otherThanMain>>

\* lines 246-255: the merge loop, the time stamp and the quality checks
MergeAndCheck ==
    /\ mn_pc = "merge"
    /\ mn_final' = StampAsOf(MergeFrames(mn_countries, mn_frames))
    /\ mn_qa' = RunQualityChecks(StampAsOf(MergeFrames(mn_countries, mn_frames)))
    /\ mn_pc' = "done"
    /\ UNCHANGED <<mn_wb, mn_rc, mn_countries, mn_k, mn_failed, mn_frames, otherThanMain>>

NextMain ==
    \/ MasterPrimaryReturns
    \/ MasterPrimaryEmpty
    \/ MasterPrimaryRaises
    \/ MasterSecondaryReturns
    \/ MasterSecondaryRaises
    \/ IndicatorFetched
    \/ IndicatorFetchRaises
    \/ IndicatorNormalizeRaises
    \/ MergeAndCheck

----------------------------------------------------------------------------
(* run_quality_checks called on a table *)

QualityColumnSets ==
    { <<"iso3", "population", "gdp_usd">>, <<"iso3", "population">>,
      <<"iso3">>, <<"population", "gdp_usd">> }

QualityRows(cols) ==
    { [c \in Range(cols) |->
          CASE c = "iso3" -> code
            [] c = "population" -> population
            [] OTHER -> gdp] :
        code \in {USA, FRA},
        population \in {Null, Some(5), Some(0 - 5)},
        gdp \in {Some(3), Some(0 - 3)} }

IdleQuality ==
    /\ qa_df = NoTable
    /\ qa_pc = "idle"
    /\ qa_result = NoQuality

StartQuality ==
    /\ \E cols \in QualityColumnSets :
          \E rows \in SeqsUpTo(QualityRows(cols), MaxQualityRows) :
              qa_df = Table(cols, rows)
    /\ qa_pc = "call"
    /\ qa_result = NoQuality

Quality ==
    /\ qa_pc = "call"
    /\ qa_result' = RunQualityChecks(qa_df)
    /\ qa_pc' = "returned"
    /\ UNCHANGED <<qa_df, otherThanQuality>>

NextQuality == Quality

----------------------------------------------------------------------------
(* Specifications *)

InitFetch ==
    StartFetch /\ IdlePages /\ IdleAdapters /\ IdleReduce /\ IdleMain /\ IdleQuality
SpecFetch == InitFetch /\ [][NextFetch]_vars

InitPages ==
    IdleFetch /\ StartPages /\ IdleAdapters /\ IdleReduce /\ IdleMain /\ IdleQuality
SpecPages == InitPages /\ [][NextPages]_vars

InitAdapters ==
    IdleFetch /\ IdlePages /\ StartAdapters /\ IdleReduce /\ IdleMain /\ IdleQuality
SpecAdapters == InitAdapters /\ [][NextAdapters]_vars

InitReduce ==
    IdleFetch /\ IdlePages /\ IdleAdapters /\ StartReduce /\ IdleMain /\ IdleQuality
SpecReduce == InitReduce /\ [][NextReduce]_vars

InitMain ==
    IdleFetch /\ IdlePages /\ IdleAdapters /\ IdleReduce /\ StartMain /\ IdleQuality
SpecMain == InitMain /\ [][NextMain]_vars

InitQuality ==
    IdleFetch /\ IdlePages /\ IdleAdapters /\ IdleReduce /\ IdleMain /\ StartQuality
SpecQuality == InitQuality /\ [][NextQuality]_vars

----------------------------------------------------------------------------
(* Properties of safe_get *)

IsRetryStatus(r) == r.kind = "http" /\ r.status \in RetryStatuses
IsTransportFailure(r) == r.kind = "transport"
IsSuccess(r) == r.kind = "http" /\ 200 <= r.status /\ r.status < 300
\* a 4xx status other than 429
IsClientError(r) ==
    r.kind = "http" /\ 400 <= r.status /\ r.status < 500 /\ r.status # 429

\* C1: an attempt that receives a 4xx status other than 429 is the last one:
\* safe_get raises on it, issues no further request and does not sleep for it.
C1_ClientErrorRaisesImmediately ==
    \A k \in 1..Len(sg_log) :
        IsClientError(sg_log[k]) =>
            /\ Len(sg_log) = k
            /\ Len(sg_sleeps) <= k - 1
            /\ sg_pc = "raised"

\* C2: for every k < retries, when the first k attempts receive a status of
\* the retry list and attempt k+1 receives 200, safe_get returns that response
\* after exactly k+1 requests and exactly k sleeps, the i-th sleep (from 0)
\* lasting min(60, 2^i).
C2_RetryThenSuccess ==
    \A k \in 0..(sg_retries - 1) :
        ( /\ Len(sg_log) >= k + 1
          /\ \A j \in 1..k : IsRetryStatus(sg_log[j])
          /\ sg_log[k + 1] = HttpResponse(200) )
        => /\ sg_pc = "returned"
           /\ sg_ret = sg_log[k + 1]
           /\ Len(sg_log) = k + 1
           /\ Len(sg_sleeps) = k
           /\ \A i \in 0..(k - 1) :
                 sg_sleeps[i + 1] = (IF 2 ^ i < 60 THEN 2 ^ i ELSE 60)

\* 429, 429, 200: returned on the third attempt, having slept 1 s and 2 s
C2_Witness ==
    /\ sg_log = <<HttpResponse(429), HttpResponse(429), HttpResponse(200)>>
    /\ sg_pc = "returned"
    /\ sg_sleeps = <<1, 2>>
    /\ sg_retries = DefaultRetries

\* C8: safe_get issues at most `retries` requests; it returns a response only
\* when the last attempt received a successful status, and that response is
\* the one returned; when all `retries` attempts ended in a status of the retry
\* list or a transport failure, nothing is returned and the only step left is
\* the raise.
C8_BoundedAndNoPartialResult ==
    /\ Len(sg_log) <= sg_retries
    /\ sg_pc = "returned" =>
          /\ Len(sg_log) >= 1
          /\ IsSuccess(sg_log[Len(sg_log)])
          /\ sg_ret = sg_log[Len(sg_log)]
    /\ sg_pc # "returned" => sg_ret = NoResponse
    /\ ( /\ Len(sg_log) = sg_retries
         /\ \A j \in 1..Len(sg_log) :
               IsRetryStatus(sg_log[j]) \/ IsTransportFailure(sg_log[j]) )
       => /\ sg_pc \in {"try", "raised"}
          /\ sg_pc = "try" =>
                /\ ENABLED SafeGetExhausted
                /\ ~ENABLED SafeGetRetryStatus
                /\ ~ENABLED SafeGetReturn
                /\ ~ENABLED SafeGetHTTPError
                /\ ~ENABLED SafeGetTransportError

\* the default six attempts all failed (rate limits and timeouts): raised
C8_Witness ==
    /\ sg_retries = DefaultRetries
    /\ Len(sg_log) = DefaultRetries
    /\ sg_log[1] = HttpResponse(429)
    /\ sg_log[DefaultRetries] = TransportFailure
    /\ \A j \in 1..Len(sg_log) :
          IsRetryStatus(sg_log[j]) \/ IsTransportFailure(sg_log[j])
    /\ sg_pc = "raised"
    /\ sg_ret = NoResponse

----------------------------------------------------------------------------
(* Properties of worldbank_fetch_all_pages *)

RECURSIVE RowsOfEnvelopes(_)
\* the rows of the well-formed pages of a log, concatenated in log order
RowsOfEnvelopes(log) ==
    IF log = <<>> THEN <<>>
    ELSE RowsOfEnvelopes(SubSeq(log, 1, Len(log) - 1))
            \o (IF IsEnvelope(log[Len(log)]) THEN log[Len(log)].rows ELSE <<>>)

\* the stop conditions as the specification words them: (a) a page count is
\* reported and page p has reached it, (b) no page count and no rows, (c) not
\* the envelope
StopsAsWorded(payload, p) ==
    \/ payload.kind = "invalid"
    \/ IsEnvelope(payload) /\ payload.has_pages /\ p >= payload.pages
    \/ IsEnvelope(payload) /\ ~payload.has_pages /\ payload.rows = <<>>

\* the stop conditions with a reported page count of zero read as no page count
StopsZeroAsOmitted(payload, p) ==
    \/ payload.kind = "invalid"
    \/ /\ IsEnvelope(payload)
       /\ payload.has_pages /\ payload.pages # 0
       /\ p >= payload.pages
    \/ /\ IsEnvelope(payload)
       /\ (~payload.has_pages \/ payload.pages = 0)
       /\ payload.rows = <<>>

Stops(payload, p, asWorded) ==
    IF asWorded THEN StopsAsWorded(payload, p) ELSE StopsZeroAsOmitted(payload, p)

CollectorContract(asWorded) ==
    \* pages are requested in the order 1, 2, 3, ...
    /\ \A k \in 1..Len(pg_requested) : pg_requested[k] = k
    /\ Len(pg_log) = Len(pg_requested)
    \* no request follows a page that met a stop condition or a failed fetch
    /\ \A k \in 1..(Len(pg_log) - 1) :
          IsEnvelope(pg_log[k]) /\ ~Stops(pg_log[k], k, asWorded)
    /\ pg_pc = "request" =>
          \A k \in 1..Len(pg_log) : IsEnvelope(pg_log[k]) /\ ~Stops(pg_log[k], k, asWorded)
    \* collection ends, without raising, exactly on a stop condition
    /\ pg_pc = "done" =>
          /\ Len(pg_log) >= 1
          /\ Stops(pg_log[Len(pg_log)], Len(pg_log), asWorded)
    /\ pg_pc = "raised" => pg_log[Len(pg_log)].kind \in {"raise", "badcount"}
    \* the result is the concatenation of the well-formed pages' rows
    /\ pg_pc = "done" => pg_rows_all = RowsOfEnvelopes(pg_log)

----------------------------------------------------------------------------
(* Properties of the adapters *)

\* the rows an adapter was given, as [code, name] pairs in source order; the
\* World Bank adapter first removes the aggregates
AdapterSource ==
    IF ad_call = "ind" THEN ad_irows
    ELSE IF ad_call = "wb" THEN SelectSeq(ad_rows, LAMBDA r : ~r.aggregate)
    ELSE ad_rows

\* the source row carries an actual 3-character code (surrounding blanks aside)
HasCode3(r) == r.code.t = "str" /\ Len(Strip(r.code.s)) = 3

\* C9: every source row without a code (key absent, or null) or whose code is
\* not 3 characters long is dropped: every output row carries the code of a
\* source row that had an actual 3-character code; in the country adapters the
\* output codes are unique and the row kept is the first source row of its code.
C9_OnlyActualCodesKept ==
    ad_pc = "returned" =>
        /\ \A i \in 1..Len(ad_out.rows) :
              \E j \in 1..Len(AdapterSource) :
                  /\ HasCode3(AdapterSource[j])
                  /\ ad_out.rows[i]["iso3"] = Strip(AdapterSource[j].code.s)
        /\ ad_call \in {"wb", "rc"} =>
              /\ \A i, j \in 1..Len(ad_out.rows) :
                    ad_out.rows[i]["iso3"] = ad_out.rows[j]["iso3"] => i = j
              /\ \A i \in 1..Len(ad_out.rows) :
                    LET same == {j \in 1..Len(AdapterSource) :
                                    /\ HasCode3(AdapterSource[j])
                                    /\ Strip(AdapterSource[j].code.s)
                                          = ad_out.rows[i]["iso3"]}
                        first == CHOOSE j \in same : \A k \in same : j <= k
                        name == IF ad_call = "wb" THEN "country_name_wb" ELSE "country"
                    IN same # {} /\ ad_out.rows[i][name] = Some(AdapterSource[first].name)

----------------------------------------------------------------------------
(* Properties of latest_by_country *)

ObservedCodes == {rd_in[i].iso3 : i \in {j \in 1..Len(rd_in) : rd_in[j].value # Null}}

\* C7: the output has at most one row per code; the codes are exactly those
\* with an observation whose value is not null; a row's year is the greatest
\* year among its code's observations with a value, and its value is that of
\* an observation of that year; no input makes the function fail, and an input
\* without any value gives the empty output.
C7_LatestPerCode ==
    rd_pc = "returned" =>
        LET out == rd_out.rows IN
        /\ \A i, j \in 1..Len(out) : out[i]["iso3"] = out[j]["iso3"] => i = j
        /\ {out[i]["iso3"] : i \in 1..Len(out)} = ObservedCodes
        /\ \A i \in 1..Len(out) :
              /\ \E k \in 1..Len(rd_in) :
                    /\ rd_in[k].iso3 = out[i]["iso3"]
                    /\ rd_in[k].value # Null
                    /\ rd_in[k].value = out[i]["population"]
                    /\ rd_in[k].year = out[i]["population_year"]
              /\ \A k \in 1..Len(rd_in) :
                    ( /\ rd_in[k].iso3 = out[i]["iso3"]
                      /\ rd_in[k].value # Null
                      /\ rd_in[k].year # Null )
                    => /\ out[i]["population_year"] # Null
                       /\ Val(rd_in[k].year) <= Val(out[i]["population_year"])
        /\ ObservedCodes = {} => out = <<>>

\* two years of one country, and a later year without a value: the later of
\* the two years with a value is kept
C7_Witness ==
    /\ rd_pc = "returned"
    /\ rd_in = << [iso3 |-> USA, year |-> Some(1), value |-> Some(10)],
                  [iso3 |-> USA, year |-> Some(2), value |-> Some(20)],
                  [iso3 |-> FRA, year |-> Some(2), value |-> Null] >>
    /\ Len(rd_out.rows) = 1
    /\ rd_out.rows[1]["iso3"] = USA
    /\ rd_out.rows[1]["population"] = Some(20)
    /\ rd_out.rows[1]["population_year"] = Some(2)

----------------------------------------------------------------------------
(* Properties of fetch_countries_master *)

\* the rows of the renamed primary table are the primary's rows, cell by cell
SamePrimaryRows(countries, wb) ==
    /\ Len(countries.rows) = Len(wb.rows)
    /\ Len(countries.cols) = Len(wb.cols)
    /\ \A i \in 1..Len(wb.rows) :
          \A c \in Range(wb.cols) :
              countries.rows[i][IF c = "country_name_wb" THEN "country"
                                ELSE IF c = "capital_wb" THEN "capital" ELSE c]
                  = wb.rows[i][c]

PrimaryGaveRows == mn_wb.called /\ ~mn_wb.raised /\ mn_wb.table.rows # <<>>
PrimaryFailed == mn_wb.called /\ (mn_wb.raised \/ mn_wb.table.rows = <<>>)

\* C3: the primary adapter is called first. When it returns rows, the
\* secondary is never called and the result is the primary's rows. When it
\* raises or returns no rows, the secondary is called and the result is the
\* secondary's rows, never a mix; the primary's failure alone does not end the
\* run.
C3_FirstUsableAdapter ==
    /\ mn_rc.called => mn_wb.called
    /\ PrimaryGaveRows =>
          /\ ~mn_rc.called
          /\ SamePrimaryRows(mn_countries, mn_wb.table)
          /\ mn_pc # "aborted"
    /\ (PrimaryFailed /\ mn_pc # "master_secondary") =>
          /\ mn_rc.called
          /\ ~mn_rc.raised => mn_countries = mn_rc.table
          /\ (~mn_rc.raised /\ mn_rc.table.rows # <<>>) => mn_pc # "aborted"

\* the primary raised, the secondary returned two rows, and they are the
\* country table of the finished run
C3_Witness ==
    /\ mn_wb = Raised
    /\ mn_rc.called /\ ~mn_rc.raised
    /\ Len(mn_rc.table.rows) = 2
    /\ mn_countries = mn_rc.table
    /\ mn_pc = "done"

----------------------------------------------------------------------------
(* Properties of main *)

FinalColumns == Range(mn_final.cols)

----------------------------------------------------------------------------
(* Properties of run_quality_checks *)

SharesCode(rows) ==
    {i \in 1..Len(rows) :
        \E j \in 1..Len(rows) : j # i /\ rows[j]["iso3"] = rows[i]["iso3"]}

RepeatsCode(rows) ==
    {i \in 1..Len(rows) : \E j \in 1..(i - 1) : rows[j]["iso3"] = rows[i]["iso3"]}

HasDuplicateCodes ==
    /\ qa_pc = "returned"
    /\ "iso3" \in Range(qa_df.cols)
    /\ SharesCode(qa_df.rows) # {}

\* C5 (as worded): on a table with rows sharing a code, unique_iso3 fails, its
\* count is the number of rows that share their code with another row (2 for
\* two rows), and the verdict is false.
C5_DuplicateCountAsWorded ==
    HasDuplicateCodes =>
        /\ qa_result.checks[1].check = "unique_iso3"
        /\ ~qa_result.checks[1].passed
        /\ qa_result.checks[1].details = Cardinality(SharesCode(qa_df.rows))
        /\ ~qa_result.passed

\* C5 (amended): on a table with rows sharing a code, unique_iso3 fails, its
\* count is the number of rows whose code already occurred in an earlier row
\* (1 for two rows), and the verdict is false.
C5_DuplicateCountRepeats ==
    HasDuplicateCodes =>
        /\ qa_result.checks[1].check = "unique_iso3"
        /\ ~qa_result.checks[1].passed
        /\ qa_result.checks[1].details = Cardinality(RepeatsCode(qa_df.rows))
        /\ ~qa_result.passed

\* two rows, both USA: the count is 1
C5_Witness ==
    /\ qa_pc = "returned"
    /\ Len(qa_df.rows) = 2
    /\ "iso3" \in Range(qa_df.cols)
    /\ qa_df.rows[1]["iso3"] = USA
    /\ qa_df.rows[2]["iso3"] = USA
    /\ qa_result.checks[1].details = 1
    /\ ~qa_result.checks[1].passed
    /\ ~qa_result.passed

====
